---- MODULE Spec2Model ----
(***************************************************************************)
(* Bot lifecycle and reconciliation manager (bot-manager.ts) over the      *)
(* in-memory storage (storage.ts).                                         *)
(*                                                                         *)
(* Scheduling.  The manager runs on the Node.js event loop.  An await on a *)
(* MemStorage call resumes in the same microtask drain, before any other   *)
(* timer or I/O callback runs, so a handler runs atomically from one real  *)
(* I/O suspension to the next.  The real suspensions are client.login      *)
(* (bot-manager.ts:358), client.destroy (bot-manager.ts:386) and the ps    *)
(* lookup of the per-bot sampler (bot-manager.ts:511).  A suspended        *)
(* activation is a task; every action below is one atomic segment.         *)
(***************************************************************************)
EXTENDS Integers, Sequences, FiniteSets, TLC

\* ------------------------------------------------------------------ bounds
MaxConns == 2
MaxTasks == 2
MaxCalls == 2
MaxTicks == 1
MaxEdits == 1
MaxSubs == 2
MaxAppends == 1003
MaxSamples == 102
MaxProbes == 3
MaxFaults == 1
MaxCreates == 1
MaxLost == 1
MaxLogged == 6
MaxLimit == 3

\* ------------------------------------------------------- program constants
DefaultBots == 2
LogCap == 1000
MetricCap == 100

BotIds == 1..DefaultBots
\* the ids a request can name: the stored bots and one id with no record
ReqIds == 1..(DefaultBots + 1)
ConnIds == 1..MaxConns
TaskIds == 1..MaxTasks
Subs == 1..MaxSubs

VARIABLES
  bots,            \* storage.bots: id -> [token, isRunning, status]
  botCurrentId,    \* storage.botCurrentId
  logs,            \* storage.logs
  logCurrentId,    \* storage.logCurrentId
  metricsHistory,  \* storage.metricsHistory
  metricsCurrentId,\* storage.metricsCurrentId
  botProcesses,    \* BotManager.botProcesses, a Map kept as a set of entries
  conns,           \* the discord.js clients constructed so far
  samplers,        \* live setInterval timers of setupBotMetricsCollection
  sampling,        \* sampler firings suspended at the ps lookup
  tasks,           \* suspended activations of the async operations
  clients,         \* BotManager.clients, a Set in insertion order
  socket,          \* readyState / send behaviour of each WebSocket
  inbox,           \* frames delivered to each WebSocket
  response,        \* the HTTP response sent by the last step, if any
  calls,           \* HTTP / WebSocket requests admitted so far
  ticks,           \* reconciliation ticks started so far
  edits,           \* PUT requests admitted so far
  booted,          \* the constructor's timeout has fired
  storageDown,     \* the storage collaborator rejects every call
  faults           \* storage outages so far

vars == <<bots, botCurrentId, logs, logCurrentId, metricsHistory, metricsCurrentId,
          botProcesses, conns, samplers, sampling, tasks, clients, socket,
          inbox, response, calls, ticks, edits, booted, storageDown, faults>>

\* ------------------------------------------------------------------ values
ONLINE == "ONLINE"
OFFLINE == "OFFLINE"
WARNING == "WARNING"

NoConn == [bot |-> 0, state |-> "none", ready |-> FALSE, emitted |-> "none"]

IdleTask == [op |-> "idle", pc |-> "idle", bot |-> 0, conn |-> 0, r |-> FALSE,
             via |-> "", bp |-> {}, snap |-> <<>>, i |-> 0]

NoResponse == [op |-> "none", bot |-> 0, value |-> FALSE]

Min(S) == CHOOSE x \in S : \A y \in S : x <= y

\* Array.prototype.slice(-n) for n > 0
SliceLast(s, n) == IF Len(s) <= n THEN s ELSE SubSeq(s, Len(s) - n + 1, Len(s))

\* ------------------------------------------------------------ the JS Map
MapHas(m, k) == \E h \in m : h.botId = k
MapGet(m, k) == {h \in m : h.botId = k}
\* a Map that keeps the entry it had under the key
MapSet_KeepsOld(m, k, h) == m \cup {h}
MapSet(m, k, h) == {x \in m : x.botId # k} \cup {h}
MapDelete(m, k) == {x \in m : x.botId # k}

\* ------------------------------------------------------------- the state
\* The manager's code is written as functions of a record S of the fields it
\* mutates; an action commits the record a segment returns.
State == [bots |-> bots, botCurrentId |-> botCurrentId, logs |-> logs, logCurrentId |-> logCurrentId,
          metricsHistory |-> metricsHistory, metricsCurrentId |-> metricsCurrentId,
          botProcesses |-> botProcesses, conns |-> conns,
          samplers |-> samplers, tasks |-> tasks, clients |-> clients,
          socket |-> socket, inbox |-> inbox,
          response |-> NoResponse, down |-> storageDown, ok |-> TRUE]

Commit(S) ==
  /\ S.ok
  /\ bots' = S.bots
  /\ botCurrentId' = S.botCurrentId
  /\ logs' = S.logs
  /\ logCurrentId' = S.logCurrentId
  /\ metricsHistory' = S.metricsHistory
  /\ metricsCurrentId' = S.metricsCurrentId
  /\ botProcesses' = S.botProcesses
  /\ conns' = S.conns
  /\ samplers' = S.samplers
  /\ tasks' = S.tasks
  /\ clients' = S.clients
  /\ socket' = S.socket
  /\ inbox' = S.inbox
  /\ response' = S.response

\* ---------------------------------------------------------------- storage
\* MemStorage.createLog
StoreLog(ls, id, botId, level, message) ==
  LET log == [id |-> id, botId |-> botId, level |-> level, message |-> message]
      pushed == Append(ls, log)
  IN IF Len(pushed) > LogCap THEN SliceLast(pushed, LogCap) ELSE pushed

\* createMetrics without the trim
StoreMetric_NoTrim(ms, id) == Append(ms, [id |-> id])

\* MemStorage.createMetrics
StoreMetric(ms, id) ==
  LET pushed == Append(ms, [id |-> id])
  IN IF Len(pushed) > MetricCap THEN SliceLast(pushed, MetricCap) ELSE pushed

\* MemStorage.getLatestMetrics
getLatestMetrics(ms) == IF Len(ms) = 0 THEN <<>> ELSE <<ms[Len(ms)]>>

\* BotManager.createLog -> storage.createLog
createLog(S, botId, level, message) ==
  [S EXCEPT !.logs = StoreLog(S.logs, S.logCurrentId, botId, level, message),
            !.logCurrentId = S.logCurrentId + 1]

\* storage.createMetrics as the manager calls it
createMetrics(S) ==
  [S EXCEPT !.metricsHistory = StoreMetric(S.metricsHistory, S.metricsCurrentId),
            !.metricsCurrentId = S.metricsCurrentId + 1]

\* MemStorage.updateBot: merge the given fields into an existing record
updateBot(S, id, data) ==
  IF id \notin DOMAIN S.bots THEN S
  ELSE [S EXCEPT !.bots[id] =
          [f \in DOMAIN S.bots[id] |->
             IF f \in DOMAIN data THEN data[f] ELSE S.bots[id][f]]]

\* -------------------------------------------------------------- broadcast
\* sendStatusUpdateToClient: read the snapshot, then call ws.send whatever the
\* socket's readyState; a rejected read or a throwing send is caught.  A send
\* on a socket that is not open delivers nothing and is counted in "lost".
sendStatusUpdateToClient(S, ws) ==
  LET frame == [type |-> "statusUpdate", bots |-> S.bots,
                metrics |-> getLatestMetrics(S.metricsHistory)]
  IN IF S.down THEN S
     ELSE IF S.socket[ws] = "OPEN"
     THEN [S EXCEPT !.inbox[ws].n = @ + 1, !.inbox[ws].last = <<frame>>]
     ELSE [S EXCEPT !.inbox[ws].lost = Min({@ + 1, MaxLost})]

RECURSIVE SendEach(_, _, _)
\* a loop that a failing send ends
SendEach_EndsAtFailure(S, cs, k) ==
  IF k > Len(cs) \/ S.socket[cs[k]] # "OPEN" THEN S
  ELSE SendEach(sendStatusUpdateToClient(S, cs[k]), cs, k + 1)

SendEach(S, cs, k) ==
  IF k > Len(cs) THEN S
  ELSE SendEach(sendStatusUpdateToClient(S, cs[k]), cs, k + 1)

\* broadcastUpdate: clients.forEach(client => sendStatusUpdateToClient(client))
broadcastUpdate(S) == SendEach(S, S.clients, 1)

\* updateBotStatus
updateBotStatus(S, botId, status) ==
  broadcastUpdate(updateBot(S, botId, [status |-> status]))

\* updateBotMetrics
updateBotMetrics(S, botId, data) == IF S.down THEN S ELSE updateBot(S, botId, data)

\* ------------------------------------------------------------------ tasks
Task(S, t) == S.tasks[t]

Goto(S, t, pc) == [S EXCEPT !.tasks[t].pc = pc]

Return(S, t, pc, r) == [S EXCEPT !.tasks[t].pc = pc, !.tasks[t].r = r]

Finish(S, t) == [S EXCEPT !.tasks[t] = IdleTask]

Respond(S, t) ==
  Finish([S EXCEPT !.response = [op |-> Task(S, t).op, bot |-> Task(S, t).bot,
                                 value |-> Task(S, t).r]], t)

\* the end of a tick: the broadcast after the loop
TickDone(S, t) ==
  Finish([broadcastUpdate(S) EXCEPT !.response = [op |-> "tick", bot |-> 0, value |-> TRUE]], t)

\* the tick's outer catch block: console.error("Error in bot ping mechanism")
TickCatch(S, t) ==
  Finish([S EXCEPT !.response = [op |-> "tick", bot |-> 0, value |-> FALSE]], t)

\* the end of the recovery pass: console.log("Bot recovery process completed.")
RecoverDone(S, t) ==
  Finish([S EXCEPT !.response = [op |-> "recover", bot |-> 0, value |-> TRUE]], t)

\* the pass's outer catch block: console.error("Error recovering running bots")
RecoverCatch(S, t) ==
  Finish([S EXCEPT !.response = [op |-> "recover", bot |-> 0, value |-> FALSE]], t)

\* a rejection leaves the function the task is in
Throw(S, t) == [S EXCEPT !.tasks[t].pc = "threw"]

\* the nearest catch block of the caller.  A rejection comes from a storage
\* call, so a catch block that logs rejects in turn and the next one out runs.
Catch(S, t) ==
  LET op == Task(S, t).op IN
  CASE op \in {"startBot", "stopBot", "restartBot"} ->
         Finish([S EXCEPT !.response = [op |-> "rejected", bot |-> Task(S, t).bot,
                                        value |-> FALSE]], t)
    [] op = "tick" /\ Task(S, t).via = "rule1" ->
         [S EXCEPT !.tasks[t].via = "fallback", !.tasks[t].pc = "stopBot"]
    [] op = "tick" /\ Task(S, t).via # "rule1" -> TickCatch(S, t)
    [] op = "recover" -> RecoverCatch(S, t)
    [] op = "deleteBot" ->
         Finish([S EXCEPT !.response = [op |-> "deleteBot", bot |-> Task(S, t).bot,
                                        value |-> FALSE]], t)
    [] op = "createBot" ->
         Finish([S EXCEPT !.response = [op |-> "createBot", bot |-> 0, value |-> FALSE]], t)

FreeConns(S) == {c \in ConnIds : S.conns[c].state = "none"}

\* ---------------------------------------------------------------- startBot
\* startBot without its check for a registered handle
StartBotEntry_NoRunningCheck(S, t) ==
  LET botId == Task(S, t).bot IN
  IF botId \notin DOMAIN S.bots \/ ~S.bots[botId].token
  THEN Return(createLog(S, botId, "error", "Bot token not found"), t, "startRet", FALSE)
  ELSE IF FreeConns(S) = {}
  THEN [S EXCEPT !.ok = FALSE]
  ELSE LET client == Min(FreeConns(S)) IN
       [S EXCEPT !.conns[client] = [NoConn EXCEPT !.bot = botId, !.state = "created"],
                 !.tasks[t].conn = client,
                 !.tasks[t].pc = "login"]

\* startBot going on to the login without a token
StartBotEntry_NoTokenCheck(S, t) ==
  LET botId == Task(S, t).bot IN
  IF MapHas(S.botProcesses, botId)
  THEN Return(createLog(S, botId, "warning", "Bot is already running"), t, "startRet", TRUE)
  ELSE IF FreeConns(S) = {}
  THEN [S EXCEPT !.ok = FALSE]
  ELSE LET client == Min(FreeConns(S)) IN
       [S EXCEPT !.conns[client] = [NoConn EXCEPT !.bot = botId, !.state = "created"],
                 !.tasks[t].conn = client,
                 !.tasks[t].pc = "login"]

\* startBot up to the await of client.login
StartBotEntry(S, t) ==
  LET botId == Task(S, t).bot IN
  IF S.down THEN Throw(S, t)
  ELSE IF botId \notin DOMAIN S.bots \/ ~S.bots[botId].token
  THEN Return(createLog(S, botId, "error", "Bot token not found"), t, "startRet", FALSE)
  ELSE IF MapHas(S.botProcesses, botId)
  THEN Return(createLog(S, botId, "warning", "Bot is already running"), t, "startRet", TRUE)
  ELSE IF FreeConns(S) = {}
  THEN [S EXCEPT !.ok = FALSE]
  ELSE LET client == Min(FreeConns(S)) IN
       [S EXCEPT !.conns[client] = [NoConn EXCEPT !.bot = botId, !.state = "created"],
                 !.tasks[t].conn = client,
                 !.tasks[t].pc = "login"]

\* startBot registering the handle whatever the login did
StartBotLogin_RegistersAnyway(S, t, resolved) ==
  LET botId == Task(S, t).bot
      client == Task(S, t).conn
      S1 == [S EXCEPT !.botProcesses =
                         MapSet(S.botProcesses, botId,
                                [botId |-> botId, discordClient |-> client,
                                 status |-> ONLINE])]
  IN IF resolved
     THEN Return([S1 EXCEPT !.conns[client].state = "live"], t, "startRet", TRUE)
     ELSE Return(createLog([S1 EXCEPT !.conns[client].state = "failed"],
                           botId, "error", "Failed to start"),
                 t, "startRet", FALSE)

\* startBot from the settlement of client.login to its return
StartBotLogin(S, t, resolved) ==
  LET botId == Task(S, t).bot
      client == Task(S, t).conn
  IN IF resolved
     THEN Return([S EXCEPT !.conns[client].state = "live",
                           !.botProcesses =
                              MapSet(S.botProcesses, botId,
                                     [botId |-> botId, discordClient |-> client,
                                      status |-> ONLINE])],
                 t, "startRet", TRUE)
     ELSE IF S.down THEN Throw([S EXCEPT !.conns[client].state = "failed"], t)
     ELSE Return(createLog([S EXCEPT !.conns[client].state = "failed"],
                           botId, "error", "Failed to start"),
                 t, "startRet", FALSE)

\* ----------------------------------------------------------------- stopBot
\* stopBot without its early return: the missing handle is dereferenced, the
\* TypeError lands in the catch block
StopBotEntry_NoGuard(S, t) ==
  LET botProcess == MapGet(S.botProcesses, Task(S, t).bot) IN
  IF botProcess = {}
  THEN Return(createLog(S, Task(S, t).bot, "error", "Failed to stop"), t, "stopRet", FALSE)
  ELSE [S EXCEPT !.tasks[t].conn = (CHOOSE h \in botProcess : TRUE).discordClient,
                 !.tasks[t].pc = "destroy"]

\* stopBot up to the await of discordClient.destroy
StopBotEntry(S, t) ==
  LET botProcess == MapGet(S.botProcesses, Task(S, t).bot) IN
  IF botProcess = {}
  THEN Return(S, t, "stopRet", FALSE)
  ELSE [S EXCEPT !.tasks[t].conn = (CHOOSE h \in botProcess : TRUE).discordClient,
                 !.tasks[t].pc = "destroy"]

\* stopBot from the settlement of destroy to its return
StopBotDestroy(S, t, resolved) ==
  LET botId == Task(S, t).bot
      client == Task(S, t).conn
  IN IF resolved /\ S.down
     THEN Throw([S EXCEPT !.conns[client].state = "destroyed",
                          !.botProcesses = MapDelete(S.botProcesses, botId)], t)
     ELSE IF resolved
     THEN Return(updateBotStatus(
                   [S EXCEPT !.conns[client].state = "destroyed",
                             !.botProcesses = MapDelete(S.botProcesses, botId)],
                   botId, OFFLINE),
                 t, "stopRet", TRUE)
     ELSE IF S.down THEN Throw(S, t)
     ELSE Return(createLog(S, botId, "error", "Failed to stop"), t, "stopRet", FALSE)

\* MemStorage.deleteBot: this.bots.delete(id)
deleteBot(S, id) ==
  [S EXCEPT !.bots = [b \in DOMAIN S.bots \ {id} |-> S.bots[b]]]

\* DELETE /api/bots/:id after its await of stopBot: deleteBot, then 404, or
\* broadcastUpdate and 204
DeleteBotReturn(S, t) ==
  LET botId == Task(S, t).bot IN
  IF S.down THEN Throw(S, t)
  ELSE IF botId \notin DOMAIN S.bots
  THEN Respond([S EXCEPT !.tasks[t].r = FALSE], t)
  ELSE Respond([broadcastUpdate(deleteBot(S, botId)) EXCEPT !.tasks[t].r = TRUE], t)

\* the caller's code after its await of stopBot
StopBotReturn(S, t) ==
  IF Task(S, t).op = "stopBot" THEN Respond(S, t)
  ELSE IF Task(S, t).op = "deleteBot" THEN DeleteBotReturn(S, t)
  ELSE IF Task(S, t).op = "tick" /\ Task(S, t).via = "fallback" THEN Goto(S, t, "wait")
  ELSE Goto(S, t, "startBot")

\* the caller's code after its await of startBot
StartBotReturn(S, t) ==
  LET op == Task(S, t).op
      botId == Task(S, t).bot
  IN CASE op \in {"startBot", "restartBot"} -> Respond(S, t)
       [] op = "createBot" ->
            Finish([S EXCEPT !.response = [op |-> "createBot", bot |-> botId,
                                           value |-> TRUE]], t)
       [] op = "tick" /\ Task(S, t).via \in {"rule1", "fallback"} /\ S.down -> Throw(S, t)
       [] op = "recover" /\ S.down -> Throw(S, t)
       [] op = "tick" /\ Task(S, t).via = "fallback" /\ ~S.down ->
            Goto(createLog(S, botId, "success", "Bot recovered after full stop/start cycle."),
                 t, "rules23")
       [] op = "tick" /\ Task(S, t).via = "rule1" /\ ~S.down ->
            Goto(createLog(S, botId, "success",
                           "Bot successfully reconnected by auto-recovery system."),
                 t, "rules23")
       [] op = "tick" /\ Task(S, t).via = "rule3" -> Goto(S, t, "tickNext")
       [] op = "recover" /\ ~S.down ->
            Goto(createLog(S, botId, "info",
                           "Bot automatically recovered after system restart."),
                 t, "recoverNext")

\* ------------------------------------------------------ reconciliation tick
RECURSIVE Ascending(_)
Ascending(ids) ==
  IF ids = {} THEN <<>> ELSE <<Min(ids)>> \o Ascending(ids \ {Min(ids)})

\* MemStorage.getAllBots: the records in insertion order
getAllBots(bs) ==
  LET order == Ascending(DOMAIN bs)
  IN [k \in 1..Len(order) |->
        [id |-> order[k], isRunning |-> bs[order[k]].isRunning,
         status |-> bs[order[k]].status]]

HandleIs(bp, statuses) == \E h \in bp : h.status \in statuses

\* rule 1 without its "no handle" disjunct
TickBot_NeedsHandle(S, t) ==
  LET bot == Task(S, t).snap[Task(S, t).i]
      botProcess == MapGet(S.botProcesses, bot.id)
      S1 == [S EXCEPT !.tasks[t].bot = bot.id, !.tasks[t].bp = botProcess]
  IN IF bot.isRunning /\ HandleIs(botProcess, {WARNING, OFFLINE})
     THEN [createLog(S1, bot.id, "warning",
                     "Ping mechanism detected bot offline. Attempting automatic reconnection.")
             EXCEPT !.tasks[t].via = "rule1", !.tasks[t].pc = "stopBot"]
     ELSE Goto(S1, t, "rules23")

\* the loop body up to the restart of rule 1
TickBot(S, t) ==
  LET bot == Task(S, t).snap[Task(S, t).i]
      botProcess == MapGet(S.botProcesses, bot.id)
      S1 == [S EXCEPT !.tasks[t].bot = bot.id, !.tasks[t].bp = botProcess]
  IN IF bot.isRunning /\ (botProcess = {} \/ HandleIs(botProcess, {WARNING, OFFLINE}))
     THEN IF S.down THEN TickCatch(S1, t) ELSE
          [createLog(S1, bot.id, "warning",
                     "Ping mechanism detected bot offline. Attempting automatic reconnection.")
             EXCEPT !.tasks[t].via = "rule1", !.tasks[t].pc = "stopBot"]
     ELSE Goto(S1, t, "rules23")

\* rule 2 correcting the status only
TickRules23_StatusOnly(S, t, unhealthy) ==
  LET bot == Task(S, t).snap[Task(S, t).i]
      botProcess == Task(S, t).bp
      S1 == IF HandleIs(botProcess, {ONLINE}) /\ ~bot.isRunning
            THEN createLog(updateBotStatus(S, bot.id, ONLINE),
                           bot.id, "info", "Ping mechanism corrected bot status to online.")
            ELSE S
  IN IF HandleIs(botProcess, {ONLINE}) /\ unhealthy[bot.id]
     THEN [S1 EXCEPT !.tasks[t].via = "rule3", !.tasks[t].pc = "stopBot"]
     ELSE Goto(S1, t, "tickNext")

\* rule 3 for desired-running bots only
TickRules23_NeedsRunning(S, t, unhealthy) ==
  LET bot == Task(S, t).snap[Task(S, t).i]
      botProcess == Task(S, t).bp
      S1 == IF HandleIs(botProcess, {ONLINE}) /\ ~bot.isRunning
            THEN createLog(
                   updateBotMetrics(updateBotStatus(S, bot.id, ONLINE),
                                    bot.id, [isRunning |-> TRUE]),
                   bot.id, "info", "Ping mechanism corrected bot status to online.")
            ELSE S
  IN IF HandleIs(botProcess, {ONLINE}) /\ bot.isRunning /\ unhealthy[bot.id]
     THEN [S1 EXCEPT !.tasks[t].via = "rule3", !.tasks[t].pc = "stopBot"]
     ELSE Goto(S1, t, "tickNext")

\* the rest of the loop body: the status correction and the health check
TickRules23(S, t, unhealthy) ==
  LET bot == Task(S, t).snap[Task(S, t).i]
      botProcess == Task(S, t).bp
      S1 == IF HandleIs(botProcess, {ONLINE}) /\ ~bot.isRunning
            THEN createLog(
                   updateBotMetrics(updateBotStatus(S, bot.id, ONLINE),
                                    bot.id, [isRunning |-> TRUE]),
                   bot.id, "info", "Ping mechanism corrected bot status to online.")
            ELSE S
  IN IF HandleIs(botProcess, {ONLINE}) /\ ~bot.isRunning /\ S.down
     THEN TickCatch(S, t)
     ELSE IF HandleIs(botProcess, {ONLINE}) /\ unhealthy[bot.id]
     THEN [S1 EXCEPT !.tasks[t].via = "rule3", !.tasks[t].pc = "stopBot"]
     ELSE Goto(S1, t, "tickNext")

\* the loop header, and the broadcast after the loop
TickNext(S, t) ==
  IF Task(S, t).i + 1 > Len(Task(S, t).snap)
  THEN TickDone(S, t)
  ELSE [S EXCEPT !.tasks[t].i = Task(S, t).i + 1, !.tasks[t].pc = "tickBot"]

\* ---------------------------------------------------------------- recovery
ShouldRun(bot) == bot.isRunning \/ bot.status = ONLINE

RecoverBot(S, t) ==
  [S EXCEPT !.tasks[t].bot = Task(S, t).snap[Task(S, t).i].id,
            !.tasks[t].pc = "startBot"]

RecoverNext(S, t) ==
  IF Task(S, t).i + 1 > Len(Task(S, t).snap)
  THEN RecoverDone(S, t)
  ELSE [S EXCEPT !.tasks[t].i = Task(S, t).i + 1, !.tasks[t].pc = "recoverBot"]

\* --------------------------------------------------------------- createBot
\* an optional field of the request body that was left out
Undefined == "(undefined)"

\* JS truthiness of an optional string
Truthy(v) == v # Undefined /\ v # ""

\* MemStorage.createBot: the permission string chosen by the bot type
defaultPermissions(botType) ==
  CASE botType = "MUSIC" -> "36700160"
    [] botType = "MODERATION" -> "1099511627775"
    [] botType = "GAMING" -> "297273408"
    [] OTHER -> "268435456"

\* MemStorage.createBot: the invite configuration chosen by the bot type
\* (the object that JSON.stringify serialises)
defaultInviteConfig(botType) ==
  CASE botType = "MUSIC" ->
         [scopes |-> <<"bot", "applications.commands">>,
          permissions |-> <<"CONNECT", "SPEAK", "SEND_MESSAGES", "EMBED_LINKS">>,
          description |-> "A music bot for your Discord server"]
    [] botType = "MODERATION" ->
         [scopes |-> <<"bot", "applications.commands">>,
          permissions |-> <<"ADMINISTRATOR", "MANAGE_GUILD", "KICK_MEMBERS", "BAN_MEMBERS">>,
          description |-> "A powerful moderation bot"]
    [] botType = "GAMING" ->
         [scopes |-> <<"bot", "applications.commands">>,
          permissions |-> <<"SEND_MESSAGES", "READ_MESSAGE_HISTORY", "ADD_REACTIONS",
                            "EMBED_LINKS">>,
          description |-> "A gaming bot for your Discord server"]
    [] OTHER ->
         [scopes |-> <<"bot", "applications.commands">>,
          permissions |-> <<"SEND_MESSAGES", "READ_MESSAGE_HISTORY">>,
          description |-> "A Discord bot"]

\* JSON.stringify of the four configurations above
JSONstringify(o) ==
  CASE o.description = "A music bot for your Discord server" ->
         "{\"scopes\":[\"bot\",\"applications.commands\"],\"permissions\":[\"CONNECT\",\"SPEAK\",\"SEND_MESSAGES\",\"EMBED_LINKS\"],\"description\":\"A music bot for your Discord server\"}"
    [] o.description = "A powerful moderation bot" ->
         "{\"scopes\":[\"bot\",\"applications.commands\"],\"permissions\":[\"ADMINISTRATOR\",\"MANAGE_GUILD\",\"KICK_MEMBERS\",\"BAN_MEMBERS\"],\"description\":\"A powerful moderation bot\"}"
    [] o.description = "A gaming bot for your Discord server" ->
         "{\"scopes\":[\"bot\",\"applications.commands\"],\"permissions\":[\"SEND_MESSAGES\",\"READ_MESSAGE_HISTORY\",\"ADD_REACTIONS\",\"EMBED_LINKS\"],\"description\":\"A gaming bot for your Discord server\"}"
    [] o.description = "A Discord bot" ->
         "{\"scopes\":[\"bot\",\"applications.commands\"],\"permissions\":[\"SEND_MESSAGES\",\"READ_MESSAGE_HISTORY\"],\"description\":\"A Discord bot\"}"

\* a record that takes the default whatever the caller supplied
NewBot_DefaultsOnly(insertBot) ==
  [token |-> Truthy(insertBot.token),
   isRunning |-> FALSE,
   memory |-> 0,
   uptime |-> 0,
   serverCount |-> 0,
   commandCount |-> 0,
   botType |-> IF Truthy(insertBot.botType) THEN insertBot.botType ELSE "null",
   status |-> OFFLINE,
   permissions |-> defaultPermissions(insertBot.botType),
   inviteConfig |-> JSONstringify(defaultInviteConfig(insertBot.botType))]

\* a record stored as running when it has a token
NewBot_Running(insertBot) ==
  [token |-> Truthy(insertBot.token),
   isRunning |-> Truthy(insertBot.token),
   memory |-> 0,
   uptime |-> 0,
   serverCount |-> 0,
   commandCount |-> 0,
   botType |-> IF Truthy(insertBot.botType) THEN insertBot.botType ELSE "null",
   status |-> OFFLINE,
   permissions |-> IF Truthy(insertBot.permissions) THEN insertBot.permissions
                   ELSE defaultPermissions(insertBot.botType),
   inviteConfig |-> IF Truthy(insertBot.inviteConfig) THEN insertBot.inviteConfig
                    ELSE JSONstringify(defaultInviteConfig(insertBot.botType))]

\* MemStorage.createBot: the stored record
NewBot(insertBot) ==
  [token |-> Truthy(insertBot.token),
   isRunning |-> FALSE,
   memory |-> 0,
   uptime |-> 0,
   serverCount |-> 0,
   commandCount |-> 0,
   botType |-> IF Truthy(insertBot.botType) THEN insertBot.botType ELSE "null",
   status |-> OFFLINE,
   permissions |-> IF Truthy(insertBot.permissions) THEN insertBot.permissions
                   ELSE defaultPermissions(insertBot.botType),
   inviteConfig |-> IF Truthy(insertBot.inviteConfig) THEN insertBot.inviteConfig
                    ELSE JSONstringify(defaultInviteConfig(insertBot.botType))]

StoreBot(S, insertBot) ==
  LET id == S.botCurrentId IN
  [S EXCEPT !.botCurrentId = id + 1,
            !.bots = [b \in DOMAIN S.bots \cup {id} |->
                        IF b = id THEN NewBot(insertBot) ELSE S.bots[b]]]

\* BotManager.createBot up to its await of startBot
CreateBotEntry(S, t, data) ==
  IF S.down
  THEN Finish([S EXCEPT !.response = [op |-> "createBot", bot |-> 0, value |-> FALSE]], t)
  ELSE
  LET id == S.botCurrentId
      S1 == IF data.additionalFiles
            THEN createLog(S, -1, "info", "Received additional files") ELSE S
      S2 == StoreBot(S1, data)
      S3 == IF data.additionalFiles
            THEN createLog(S2, id, "info", "Bot created with additional files") ELSE S2
      S4 == [S3 EXCEPT !.tasks[t].bot = id]
  IN IF Truthy(data.token) THEN Goto(S4, t, "startBot")
     ELSE Finish([S4 EXCEPT !.response = [op |-> "createBot", bot |-> id, value |-> TRUE]], t)

\* ------------------------------------------------------------------ driver
Suspended == {"idle", "login", "destroy", "wait"}

Step(S, t, unhealthy) ==
  LET pc == Task(S, t).pc IN
  CASE pc = "startBot" -> StartBotEntry(S, t)
    [] pc = "startRet" -> StartBotReturn(S, t)
    [] pc = "stopBot" -> StopBotEntry(S, t)
    [] pc = "stopRet" -> StopBotReturn(S, t)
    [] pc = "tickBot" -> TickBot(S, t)
    [] pc = "rules23" -> TickRules23(S, t, unhealthy)
    [] pc = "tickNext" -> TickNext(S, t)
    [] pc = "recoverBot" -> RecoverBot(S, t)
    [] pc = "recoverNext" -> RecoverNext(S, t)
    [] pc = "threw" -> Catch(S, t)

\* run task t to its next suspension (or to its end)
RECURSIVE Run(_, _, _)
Run(S, t, unhealthy) ==
  IF ~S.ok \/ Task(S, t).pc \in Suspended THEN S
  ELSE Run(Step(S, t, unhealthy), t, unhealthy)
\* ----------------------------------------------------------------- initial
\* MemStorage.initializeDefaultData and the field initialisers of BotManager
Init ==
  /\ bots = [b \in BotIds |-> [token |-> TRUE, isRunning |-> FALSE, status |-> OFFLINE]]
  /\ botCurrentId = DefaultBots + 1
  /\ logs = <<[id |-> 1, botId |-> 1, level |-> "info", message |-> "registered successfully"],
              [id |-> 2, botId |-> 2, level |-> "info", message |-> "registered successfully"]>>
  /\ logCurrentId = 3
  /\ metricsHistory = <<[id |-> 1]>>
  /\ metricsCurrentId = 2
  /\ botProcesses = {}
  /\ conns = [c \in ConnIds |-> NoConn]
  /\ samplers = {}
  /\ sampling = {}
  /\ tasks = [t \in TaskIds |-> IdleTask]
  /\ clients = <<>>
  /\ socket = [s \in Subs |-> "NEW"]
  /\ inbox = [s \in Subs |-> [n |-> 0, last |-> <<>>, lost |-> 0]]
  /\ response = NoResponse
  /\ calls = 0
  /\ ticks = 0
  /\ edits = 0
  /\ booted = FALSE
  /\ storageDown = FALSE
  /\ faults = 0

\* ----------------------------------------------------------------- actions
IdleTasks == {t \in TaskIds : tasks[t].op = "idle"}

Healthy == [b \in BotIds |-> FALSE]

Pings(t) == IF tasks[t].op = "tick" THEN [BotIds -> BOOLEAN] ELSE {Healthy}

Spawn(t, op, pc, botId) ==
  [State EXCEPT !.tasks[t] = [IdleTask EXCEPT !.op = op, !.pc = pc, !.bot = botId]]

Request(op, pc, botId) ==
  /\ calls < MaxCalls
  /\ IdleTasks # {}
  /\ LET t == Min(IdleTasks) IN Commit(Run(Spawn(t, op, pc, botId), t, Healthy))
  /\ calls' = calls + 1
  /\ UNCHANGED <<storageDown, faults, sampling, ticks, edits, booted>>

\* POST /api/bots/:id/start and the startBot WebSocket message
ApiStartBot(botId) == Request("startBot", "startBot", botId)

\* POST /api/bots/:id/stop and the stopBot WebSocket message
ApiStopBot(botId) == Request("stopBot", "stopBot", botId)

\* POST /api/bots/:id/restart and the restartBot WebSocket message
ApiRestartBot(botId) == Request("restartBot", "stopBot", botId)

\* PUT /api/bots/:id with a token in the body
UpdateBotRoute(botId, token) ==
  /\ edits < MaxEdits
  /\ botId \in DOMAIN bots
  /\ bots[botId].token # token
  /\ Commit(IF storageDown THEN State ELSE updateBot(State, botId, [token |-> token]))
  /\ edits' = edits + 1
  /\ UNCHANGED <<storageDown, faults, sampling, calls, ticks, booted>>

\* client.login settles
LoginSettle(t, resolved) ==
  /\ tasks[t].pc = "login"
  /\ \E unhealthy \in Pings(t) :
       Commit(Run(StartBotLogin(State, t, resolved), t, unhealthy))
  /\ UNCHANGED <<storageDown, faults, sampling, calls, ticks, edits, booted>>

\* discordClient.destroy settles
DestroySettle(t, resolved) ==
  /\ tasks[t].pc = "destroy"
  /\ \E unhealthy \in Pings(t) :
       Commit(Run(StopBotDestroy(State, t, resolved), t, unhealthy))
  /\ UNCHANGED <<storageDown, faults, sampling, calls, ticks, edits, booted>>

\* the client's ready event
ReadyHandler(S, client) ==
  LET botId == S.conns[client].bot IN
  IF S.down THEN [S EXCEPT !.conns[client].ready = TRUE]
  ELSE
  [createLog(updateBotStatus(S, botId, ONLINE), botId, "info", "Bot is now online")
     EXCEPT !.samplers = S.samplers \cup {client},
            !.conns[client].ready = TRUE]

Ready(client) ==
  /\ conns[client].state = "live"
  /\ ~conns[client].ready
  /\ Commit(ReadyHandler(State, client))
  /\ UNCHANGED <<storageDown, faults, sampling, calls, ticks, edits, booted>>

\* client.on('error'): log the error, mark the bot WARNING
ErrorHandler(S, client) ==
  LET botId == S.conns[client].bot
      S1 == [S EXCEPT !.conns[client].emitted = "error"]
  IN IF S.down THEN S1
     ELSE updateBotStatus(createLog(S1, botId, "error", "Discord error"), botId, WARNING)

\* client.on('disconnect'): log a warning, mark the bot WARNING
DisconnectHandler(S, client) ==
  LET botId == S.conns[client].bot
      S1 == [S EXCEPT !.conns[client].emitted = "disconnect"]
  IN IF S.down THEN S1
     ELSE updateBotStatus(createLog(S1, botId, "warning", "Bot disconnected"), botId, WARNING)

\* the connection emits an event; its handlers are registered before the login
Emits(client) ==
  /\ conns[client].state \in {"created", "live"}
  /\ faults < MaxFaults
  /\ faults' = faults + 1
  /\ UNCHANGED <<storageDown, sampling, calls, ticks, edits, booted>>

ErrorEvent(client) == Emits(client) /\ Commit(ErrorHandler(State, client))

DisconnectEvent(client) == Emits(client) /\ Commit(DisconnectHandler(State, client))

\* a firing of the per-bot interval, up to the ps lookup
SamplerFire(client) ==
  /\ client \in samplers
  /\ client \notin sampling
  /\ LET process == MapGet(botProcesses, conns[client].bot) IN
       IF process = {} \/ ~HandleIs(process, {ONLINE})
       THEN samplers' = samplers \ {client} /\ sampling' = sampling
       ELSE samplers' = samplers /\ sampling' = sampling \cup {client}
  /\ response' = NoResponse
  /\ UNCHANGED <<storageDown, faults, bots, botCurrentId, logs, logCurrentId, metricsHistory, metricsCurrentId, botProcesses,
                 conns, tasks, clients, socket, inbox, calls, ticks, edits, booted>>

\* the rest of the firing: updateBotMetrics and broadcastUpdate
SamplerWrite(S, client) ==
  broadcastUpdate(updateBotMetrics(S, S.conns[client].bot, [isRunning |-> TRUE]))

SamplerDone(client) ==
  /\ client \in sampling
  /\ Commit(SamplerWrite(State, client))
  /\ sampling' = sampling \ {client}
  /\ UNCHANGED <<storageDown, faults, calls, ticks, edits, booted>>

\* a firing of the 60 s interval of initializePingMechanism
TickBegin(S, t) ==
  LET all == getAllBots(S.bots) IN
  IF S.down THEN TickCatch(S, t)
  ELSE IF Len(all) = 0 THEN TickDone(S, t)
  ELSE [S EXCEPT !.tasks[t].snap = all, !.tasks[t].i = 1, !.tasks[t].pc = "tickBot"]

Tick ==
  /\ booted
  /\ ticks < MaxTicks
  /\ IdleTasks # {}
  /\ LET t == Min(IdleTasks) IN
       \E unhealthy \in [BotIds -> BOOLEAN] :
         Commit(Run(TickBegin(Spawn(t, "tick", "tickBegin", 0), t), t, unhealthy))
  /\ ticks' = ticks + 1
  /\ UNCHANGED <<storageDown, faults, sampling, calls, edits, booted>>

\* the constructor's 2 s timeout: arm the intervals, then recoverRunningBots
RecoverBegin(S, t) ==
  LET runningBots == SelectSeq(getAllBots(S.bots), ShouldRun) IN
  IF S.down THEN RecoverCatch(S, t)
  ELSE IF Len(runningBots) = 0 THEN Finish(S, t)
  ELSE [S EXCEPT !.tasks[t].snap = runningBots, !.tasks[t].i = 1,
                 !.tasks[t].pc = "recoverBot"]

Recover ==
  /\ ~booted
  /\ IdleTasks # {}
  /\ LET t == Min(IdleTasks) IN
       Commit(Run(RecoverBegin(Spawn(t, "recover", "recoverBegin", 0), t), t, Healthy))
  /\ booted' = TRUE
  /\ UNCHANGED <<storageDown, faults, sampling, calls, ticks, edits>>

Next ==
  \/ \E b \in ReqIds : ApiStartBot(b)
  \/ \E b \in ReqIds : ApiStopBot(b)
  \/ \E b \in ReqIds : ApiRestartBot(b)
  \/ \E b \in BotIds, token \in BOOLEAN : UpdateBotRoute(b, token)
  \/ \E t \in TaskIds, resolved \in BOOLEAN : LoginSettle(t, resolved)
  \/ \E t \in TaskIds, resolved \in BOOLEAN : DestroySettle(t, resolved)
  \/ \E c \in ConnIds : Ready(c)
  \/ \E c \in ConnIds : SamplerFire(c)
  \/ \E c \in ConnIds : SamplerDone(c)
  \/ Tick
  \/ Recover

Spec == Init /\ [][Next]_vars

\* ------------------------------------------------- the storage on its own
\* Any caller's storage.createLog / storage.createMetrics, with nothing else
\* of the program running in between.
CreateLogCall ==
  /\ logCurrentId <= MaxAppends
  /\ Commit(createLog(State, 1, "info", "entry"))
  /\ UNCHANGED <<storageDown, faults, sampling, calls, ticks, edits, booted>>

CreateMetricsCall ==
  /\ metricsCurrentId <= MaxSamples
  /\ Commit(createMetrics(State))
  /\ UNCHANGED <<storageDown, faults, sampling, calls, ticks, edits, booted>>

NextStore == CreateLogCall \/ CreateMetricsCall

\* ------------------------------------------- a storage that can fail
\* The manager reaches the store through the IStorage interface, whose calls
\* return promises; here the store starts rejecting every call, and later
\* answers again.
StorageFails ==
  /\ ~storageDown
  /\ faults < MaxFaults
  /\ storageDown' = TRUE
  /\ faults' = faults + 1
  /\ response' = NoResponse
  /\ UNCHANGED <<bots, botCurrentId, logs, logCurrentId, metricsHistory, metricsCurrentId, botProcesses,
                 conns, samplers, sampling, tasks, clients, socket, inbox, calls, ticks,
                 edits, booted>>

StorageRecovers ==
  /\ storageDown
  /\ storageDown' = FALSE
  /\ response' = NoResponse
  /\ UNCHANGED <<bots, botCurrentId, logs, logCurrentId, metricsHistory, metricsCurrentId, botProcesses,
                 conns, samplers, sampling, tasks, clients, socket, inbox, calls, ticks,
                 edits, booted, faults>>

\* the 2 s pause of rule 1's stop / start fallback is over
FallbackWait(t) ==
  /\ tasks[t].pc = "wait"
  /\ \E unhealthy \in Pings(t) :
       Commit(Run(Goto(State, t, "startBot"), t, unhealthy))
  /\ UNCHANGED <<storageDown, faults, sampling, calls, ticks, edits, booted>>

NextFaults ==
  \/ Next
  \/ StorageFails
  \/ StorageRecovers
  \/ \E t \in TaskIds : FallbackWait(t)

SpecFaults == Init /\ [][NextFaults]_vars

\* ------------------------------------------- connections that emit events
NextEvents ==
  \/ \E b \in BotIds : ApiStartBot(b)
  \/ \E t \in TaskIds, resolved \in BOOLEAN : LoginSettle(t, resolved)
  \/ \E t \in TaskIds, resolved \in BOOLEAN : DestroySettle(t, resolved)
  \/ \E c \in ConnIds : Ready(c)
  \/ \E c \in ConnIds : SamplerFire(c)
  \/ \E c \in ConnIds : SamplerDone(c)
  \/ Tick
  \/ Recover
  \/ \E c \in ConnIds : ErrorEvent(c)
  \/ \E c \in ConnIds : DisconnectEvent(c)

SpecEvents == Init /\ [][NextEvents]_vars

\* ------------------------------------------------------- deleting a bot
\* DELETE /api/bots/:id
DeleteBotRoute(botId) == Request("deleteBot", "stopBot", botId)

NextDelete ==
  \/ \E b \in BotIds : ApiStartBot(b)
  \/ \E b \in BotIds : DeleteBotRoute(b)
  \/ \E t \in TaskIds, resolved \in BOOLEAN : LoginSettle(t, resolved)
  \/ \E t \in TaskIds, resolved \in BOOLEAN : DestroySettle(t, resolved)
  \/ \E c \in ConnIds : Ready(c)
  \/ \E c \in ConnIds : SamplerFire(c)
  \/ \E c \in ConnIds : SamplerDone(c)

SpecDelete == Init /\ [][NextDelete]_vars

\* --------------------------------- events of a connection after its destroy
\* The handlers stay registered on the client object; here a destroyed
\* connection still delivers an event.
EmitsLate(client) ==
  /\ conns[client].state = "destroyed"
  /\ faults < MaxFaults
  /\ faults' = faults + 1
  /\ UNCHANGED <<storageDown, sampling, calls, ticks, edits, booted>>

LateReady(client) ==
  /\ ~conns[client].ready
  /\ EmitsLate(client)
  /\ Commit(ReadyHandler(State, client))

LateError(client) == EmitsLate(client) /\ Commit(ErrorHandler(State, client))

LateDisconnect(client) == EmitsLate(client) /\ Commit(DisconnectHandler(State, client))

NextLate ==
  \/ \E b \in BotIds : ApiStartBot(b)
  \/ \E b \in BotIds : ApiStopBot(b)
  \/ \E t \in TaskIds, resolved \in BOOLEAN : LoginSettle(t, resolved)
  \/ \E t \in TaskIds, resolved \in BOOLEAN : DestroySettle(t, resolved)
  \/ \E c \in ConnIds : Ready(c)
  \/ \E c \in ConnIds : SamplerFire(c)
  \/ \E c \in ConnIds : SamplerDone(c)
  \/ \E c \in ConnIds : LateReady(c)
  \/ \E c \in ConnIds : LateError(c)
  \/ \E c \in ConnIds : LateDisconnect(c)

SpecLate == Init /\ [][NextLate]_vars

\* ------------------------------------------------------------ bot creation
\* the request bodies insertBotSchema lets through
BotTypes == {"MUSIC", "MODERATION", "GAMING", "CUSTOM", "music", Undefined}

InsertBots ==
  [token : {"", "placeholder-token"},
   botType : BotTypes,
   permissions : {Undefined, "", "8"},
   inviteConfig : {Undefined, "", "{}"},
   additionalFiles : BOOLEAN]

\* POST /api/bots
CreateBotRoute(data) ==
  /\ calls < MaxCalls
  /\ botCurrentId <= DefaultBots + MaxCreates
  /\ IdleTasks # {}
  /\ LET t == Min(IdleTasks) IN
       Commit(Run(CreateBotEntry(Spawn(t, "createBot", "createBot", 0), t, data), t, Healthy))
  /\ calls' = calls + 1
  /\ UNCHANGED <<storageDown, faults, sampling, ticks, edits, booted>>

NextCreate ==
  \/ \E data \in InsertBots : CreateBotRoute(data)
  \/ \E t \in TaskIds, resolved \in BOOLEAN : LoginSettle(t, resolved)
  \/ \E c \in ConnIds : Ready(c)
  \/ StorageFails
  \/ StorageRecovers

SpecCreate == Init /\ [][NextCreate]_vars

SpecStore == Init /\ [][NextStore]_vars

\* ------------------------------------------------------- reading the log
\* Array.prototype.slice(start): a negative start counts from the end, and
\* -0 is 0
slice(s, start) ==
  LET from == IF start < 0 THEN (IF Len(s) + start < 0 THEN 0 ELSE Len(s) + start)
              ELSE (IF start > Len(s) THEN Len(s) ELSE start)
  IN SubSeq(s, from + 1, Len(s))

\* Array.prototype.reverse
reverse(s) == [k \in 1..Len(s) |-> s[Len(s) - k + 1]]

\* MemStorage.getLogs
getLogs(ls, limit) == reverse(slice(ls, 0 - limit))

\* MemStorage.getLogsByBotId
getLogsByBotId(ls, botId, limit) ==
  reverse(slice(SelectSeq(ls, LAMBDA log : log.botId = botId), 0 - limit))

\* GET /api/logs?limit=..&botId=..; botId 0 stands for a request without one
GetLogsRoute(botId, limit) ==
  /\ Commit([State EXCEPT !.response =
               [op |-> "getLogs", bot |-> botId,
                value |-> [limit |-> limit,
                           logs |-> IF botId # 0
                                    THEN getLogsByBotId(logs, botId, limit)
                                    ELSE getLogs(logs, limit)]]])
  /\ UNCHANGED <<storageDown, faults, sampling, calls, ticks, edits, booted>>

\* any caller's createLog for a bot
LogFor(botId) ==
  /\ logCurrentId <= MaxLogged
  /\ Commit(createLog(State, botId, "info", "entry"))
  /\ UNCHANGED <<storageDown, faults, sampling, calls, ticks, edits, booted>>

NextLogs ==
  \/ \E b \in BotIds : LogFor(b)
  \/ \E b \in 0..DefaultBots, limit \in 0..MaxLimit : GetLogsRoute(b, limit)

SpecLogs == Init /\ [][NextLogs]_vars

\* ------------------------------------------------------- the subscribers
\* wss.on('connection'): addClient(ws)
AddClient(S, ws) ==
  sendStatusUpdateToClient(
    [S EXCEPT !.socket[ws] = "OPEN", !.clients = Append(S.clients, ws)], ws)

Connection(ws) ==
  /\ socket[ws] = "NEW"
  /\ Commit(AddClient(State, ws))
  /\ UNCHANGED <<storageDown, faults, sampling, calls, ticks, edits, booted>>

\* ws.on('message'), case 'requestUpdate': sendStatusUpdateToClient(ws)
RequestUpdate(ws) ==
  /\ socket[ws] = "OPEN"
  /\ calls < MaxCalls
  /\ calls' = calls + 1
  /\ Commit(sendStatusUpdateToClient(State, ws))
  /\ UNCHANGED <<storageDown, faults, sampling, ticks, edits, booted>>

\* a close event that leaves the subscriber in the set
removeClient_KeepsMember(S, ws) == [S EXCEPT !.socket[ws] = "CLOSED"]

\* ws.on('close'): removeClient(ws)
removeClient(S, ws) ==
  [S EXCEPT !.socket[ws] = "CLOSED",
            !.clients = SelectSeq(S.clients, LAMBDA c : c # ws)]

Close(ws) ==
  /\ socket[ws] \in {"OPEN", "CLOSING", "BROKEN"}
  /\ Commit(removeClient(State, ws))
  /\ UNCHANGED <<storageDown, faults, sampling, calls, ticks, edits, booted>>

\* the peer goes away: until the close event is delivered ws.send fails
PeerLost(ws) ==
  /\ socket[ws] = "OPEN"
  /\ Commit([State EXCEPT !.socket[ws] = "CLOSING"])
  /\ UNCHANGED <<storageDown, faults, sampling, calls, ticks, edits, booted>>

\* a firing of the 30 s interval of initializeMetricsCollection
CollectMetrics ==
  /\ metricsCurrentId <= MaxProbes
  /\ Commit(IF storageDown THEN State ELSE broadcastUpdate(createMetrics(State)))
  /\ UNCHANGED <<storageDown, faults, sampling, calls, ticks, edits, booted>>

NextClients ==
  \/ \E ws \in Subs : Connection(ws)
  \/ \E ws \in Subs : Close(ws)
  \/ \E ws \in Subs : PeerLost(ws)
  \/ \E ws \in Subs : RequestUpdate(ws)
  \/ CollectMetrics
  \/ \E b \in BotIds : ApiStartBot(b)
  \/ \E b \in BotIds : ApiStopBot(b)
  \/ \E t \in TaskIds, resolved \in BOOLEAN : LoginSettle(t, resolved)
  \/ \E t \in TaskIds, resolved \in BOOLEAN : DestroySettle(t, resolved)
  \/ \E c \in ConnIds : Ready(c)

SpecClients == Init /\ [][NextClients]_vars

\* ------------------------------------------------ the error notification
\* ws.readyState: a socket whose send throws may still read OPEN
readyState(S, ws) == IF S.socket[ws] = "BROKEN" THEN "OPEN" ELSE S.socket[ws]

\* client.send of the error frame; FALSE when the send throws
ErrorSent(S, ws) == S.socket[ws] = "OPEN"

ErrorFrame(message) == [type |-> "error", message |-> message]

RECURSIVE ErrorEach(_, _, _, _)
\* clients.forEach(client => { if (client.readyState === OPEN) client.send(..) }):
\* a throwing send leaves the forEach, and broadcastError rejects
ErrorEach(S, cs, k, message) ==
  IF k > Len(cs) THEN S
  ELSE IF readyState(S, cs[k]) # "OPEN" THEN ErrorEach(S, cs, k + 1, message)
  ELSE IF ~ErrorSent(S, cs[k])
  THEN [S EXCEPT !.inbox[cs[k]].lost = Min({@ + 1, MaxLost}),
                 !.response = [op |-> "rejected", bot |-> 0, value |-> FALSE]]
  ELSE ErrorEach([S EXCEPT !.inbox[cs[k]].n = @ + 1,
                           !.inbox[cs[k]].last = <<ErrorFrame(message)>>],
                 cs, k + 1, message)

broadcastError(S, message) == ErrorEach(S, S.clients, 1, message)

\* process.on('uncaughtException') / process.on('unhandledRejection')
ErrorHandling(message) ==
  /\ faults < MaxFaults
  /\ faults' = faults + 1
  /\ Commit(broadcastError(State, message))
  /\ UNCHANGED <<storageDown, sampling, calls, ticks, edits, booted>>

UncaughtException == ErrorHandling("System error occurred")

UnhandledRejection == ErrorHandling("Async error occurred")

\* the socket's stream fails: send throws, readyState still reads OPEN until
\* the close event is delivered
SocketBreaks(ws) ==
  /\ socket[ws] = "OPEN"
  /\ Commit([State EXCEPT !.socket[ws] = "BROKEN"])
  /\ UNCHANGED <<storageDown, faults, sampling, calls, ticks, edits, booted>>

NextErrors ==
  \/ \E ws \in Subs : Connection(ws)
  \/ \E ws \in Subs : Close(ws)
  \/ \E ws \in Subs : PeerLost(ws)
  \/ \E ws \in Subs : SocketBreaks(ws)
  \/ \E ws \in Subs : RequestUpdate(ws)
  \/ CollectMetrics
  \/ UncaughtException
  \/ UnhandledRejection

SpecErrors == Init /\ [][NextErrors]_vars
\* ------------------------------------------------- reading a step (s, s')
\* the log entries the step wrote
Wrote(botId, level, message) ==
  \E k \in 1..Len(logs') :
    /\ logs'[k].id >= logCurrentId
    /\ logs'[k].botId = botId
    /\ logs'[k].level = level
    /\ logs'[k].message = message

WroteAtLevel(botId, level) ==
  {k \in 1..Len(logs') :
     logs'[k].id >= logCurrentId /\ logs'[k].botId = botId /\ logs'[k].level = level}

\* the step admitted the request op(botId)
Admitted(op, botId) ==
  /\ calls' = calls + 1
  /\ \/ response'.op = op /\ response'.bot = botId
     \/ \E t \in TaskIds : /\ tasks[t].op = "idle"
                           /\ tasks'[t].op = op
                           /\ tasks'[t].bot = botId

\* the step resumed task t
Resumed(t) == tasks[t].op # "idle" /\ tasks'[t] # tasks[t]

LastLog == logs[Len(logs)]

\* ------------------------------------------------------------------ claims

\* C1 (as stated).  A startBot(id) admitted while a handle for id is registered
\* (a start returned true and no stopBot / restartBot came since) returns true,
\* constructs no connection, performs no login and leaves the one handle as it is.
C1_Original ==
  [][\A b \in BotIds :
       (Admitted("startBot", b) /\ MapHas(botProcesses, b))
         => /\ response' = [op |-> "startBot", bot |-> b, value |-> TRUE]
            /\ conns' = conns
            /\ botProcesses' = botProcesses
            /\ Cardinality(MapGet(botProcesses', b)) = 1]_vars

\* C1 (amended).  The same, for a bot whose record still carries its token.
C1_StartIdempotent ==
  [][\A b \in BotIds :
       (Admitted("startBot", b) /\ MapHas(botProcesses, b) /\ bots[b].token)
         => /\ response' = [op |-> "startBot", bot |-> b, value |-> TRUE]
            /\ conns' = conns
            /\ botProcesses' = botProcesses
            /\ Cardinality(MapGet(botProcesses', b)) = 1]_vars

C1_Witness ==
  \E b \in BotIds :
    /\ response = [op |-> "startBot", bot |-> b, value |-> TRUE]
    /\ LastLog.message = "Bot is already running"
    /\ LastLog.botId = b
    /\ Cardinality(MapGet(botProcesses, b)) = 1

\* C2.  stopBot(id) for an id without a handle returns false and leaves the handle
\* map, the persisted bot records and the log unchanged.
C2_StopMissingNoOp ==
  [][\A b \in BotIds :
       (Admitted("stopBot", b) /\ ~MapHas(botProcesses, b))
         => /\ response' = [op |-> "stopBot", bot |-> b, value |-> FALSE]
            /\ botProcesses' = botProcesses
            /\ bots' = bots
            /\ logs' = logs]_vars

C2_Witness ==
  \E b \in BotIds :
    /\ response = [op |-> "stopBot", bot |-> b, value |-> FALSE]
    /\ ~MapHas(botProcesses, b)
    /\ \A k \in 1..Len(logs) : logs[k].message # "Failed to stop"

HandleOnline(m, botId) == HandleIs(MapGet(m, botId), {ONLINE})

\* task t is suspended inside the restart that rule `via` started for botId
InRestart(ts, t, botId, via) ==
  /\ ts[t].op = "tick"
  /\ ts[t].bot = botId
  /\ ts[t].via = via
  /\ ts[t].pc \in {"login", "destroy"}

\* the outcome C4 asks of the evaluation of botId by task t
Rule1Outcome(t, botId) ==
  \/ InRestart(tasks', t, botId, "rule1")
  \/ HandleOnline(botProcesses', botId)
  \/ WroteAtLevel(botId, "error") # {}

Detected(botId) ==
  Wrote(botId, "warning",
        "Ping mechanism detected bot offline. Attempting automatic reconnection.")

\* C4.  A tick that evaluates a bot it read as isRunning = true and that has no
\* handle logs the detection and does not leave that bot before a handle with
\* status ONLINE is registered for it or an error-level entry is logged for it.
C4_ReconcileNotSilent ==
  [][/\ (ticks' = ticks + 1) =>
          LET t == Min(IdleTasks) IN
          \A b \in BotIds :
            (/\ tasks'[t].op = "idle" \/ tasks'[t].bot >= b
             /\ bots[b].isRunning
             /\ ~MapHas(botProcesses, b))
              => Detected(b) /\ Rule1Outcome(t, b)
     /\ \A t \in TaskIds :
          (tasks[t].op = "tick" /\ Resumed(t)) =>
            /\ (tasks[t].via = "rule1" /\ tasks[t].bp = {})
                 => Rule1Outcome(t, tasks[t].bot)
            /\ \A k \in (tasks[t].i + 1)..Len(tasks[t].snap) :
                 (/\ tasks'[t].op = "idle" \/ tasks'[t].i >= k
                  /\ tasks[t].snap[k].isRunning
                  /\ ~MapHas(botProcesses, tasks[t].snap[k].id))
                   => Detected(tasks[t].snap[k].id)
                      /\ Rule1Outcome(t, tasks[t].snap[k].id)]_vars

C4_Witness ==
  \E b \in BotIds :
    /\ LastLog.botId = b
    /\ LastLog.message = "Bot successfully reconnected by auto-recovery system."
    /\ logs[Len(logs) - 1].level = "warning"
    /\ HandleOnline(botProcesses, b)
    /\ bots[b].isRunning

\* C7.  The recovery pass calls startBot once for each bot whose isRunning is
\* true or whose status is ONLINE and for no other bot, and writes one recovery
\* entry per started bot: the success entry when the start returned true, the
\* failure entry when it returned false.
Recovered == "Bot automatically recovered after system restart."
RecoverFailed == "Failed to automatically recover bot after restart."

RecoveryEntries(botId) ==
  {k \in 1..Len(logs') :
     /\ logs'[k].id >= logCurrentId
     /\ logs'[k].botId = botId
     /\ logs'[k].message \in {Recovered, RecoverFailed}}

StartEntries(botId) ==
  {k \in 1..Len(logs') :
     /\ logs'[k].id >= logCurrentId
     /\ logs'[k].botId = botId
     /\ logs'[k].message \in {"Bot token not found", "Bot is already running"}}

\* C7.  The recovery pass calls startBot once for each bot with isRunning or
\* status ONLINE and for no other, and writes one recovery entry per started bot:
\* the success entry when startBot returned true, the failure entry otherwise.
C7_RecoveryLogsOutcome ==
  [][/\ (~booted /\ booted' /\ tasks' = tasks) =>
          \A b \in BotIds :
            IF ShouldRun(bots[b])
            THEN /\ Cardinality(StartEntries(b)) = 1
                 /\ Cardinality(RecoveryEntries(b)) = 1
                 /\ IF bots[b].token /\ MapHas(botProcesses, b)
                    THEN Wrote(b, "info", Recovered)
                    ELSE Wrote(b, "error", RecoverFailed)
            ELSE StartEntries(b) = {} /\ RecoveryEntries(b) = {}
     /\ \A t \in TaskIds :
          (tasks[t].op = "recover" /\ tasks[t].pc = "login" /\ Resumed(t)) =>
            IF conns'[tasks[t].conn].state = "live"
            THEN Wrote(tasks[t].bot, "info", Recovered)
            ELSE Wrote(tasks[t].bot, "error", RecoverFailed)]_vars

\* what does hold of the pass: one startBot call and one entry per selected bot
C7_RecoveryCallsOnce ==
  [][(~booted /\ booted' /\ tasks' = tasks) =>
       \A b \in BotIds :
         IF ShouldRun(bots[b])
         THEN Cardinality(StartEntries(b)) = 1 /\ Cardinality(RecoveryEntries(b)) = 1
         ELSE StartEntries(b) = {} /\ RecoveryEntries(b) = {}]_vars

\* C8 (as stated).  A tick that finds a handle ONLINE for a bot it read as
\* isRunning = false sets the record to isRunning / ONLINE, logs the correction and
\* does not destroy, replace or re-login that bot's connection during the tick.
Corrected(botId) ==
  Wrote(botId, "info", "Ping mechanism corrected bot status to online.")

CorrectionEffect(botId) ==
  /\ bots'[botId].isRunning
  /\ bots'[botId].status = ONLINE
  /\ MapGet(botProcesses', botId) = MapGet(botProcesses, botId)
  /\ \A c \in ConnIds : conns[c].bot = botId => conns'[c] = conns[c]
  /\ \A c \in ConnIds : conns'[c].bot = botId => conns[c].bot = botId

\* task t is a tick whose rule 2 corrected the bot it is now at
CorrectedBy(t) ==
  /\ tasks[t].op = "tick"
  /\ HandleIs(tasks[t].bp, {ONLINE})
  /\ ~tasks[t].snap[tasks[t].i].isRunning

DriftFound ==
  (ticks' = ticks + 1) =>
    LET t == Min(IdleTasks) IN
    \A b \in BotIds :
      (/\ tasks'[t].op = "idle" \/ tasks'[t].bot >= b
       /\ HandleOnline(botProcesses, b)
       /\ ~bots[b].isRunning)
        => Corrected(b)

\* C8 (as stated).  The tick corrects the record of a bot with an ONLINE handle
\* and isRunning = false, logs it, and does not destroy, replace or re-login
\* that bot's connection for the rest of the tick.
C8_Original ==
  [][/\ DriftFound
     /\ \A b \in BotIds : Corrected(b) => CorrectionEffect(b)
     /\ \A t \in TaskIds :
          (CorrectedBy(t) /\ Resumed(t)) =>
            /\ conns'[tasks[t].conn].state = conns[tasks[t].conn].state
            /\ \A c \in ConnIds : conns'[c].bot = tasks[t].bot => conns[c].bot = tasks[t].bot]_vars

\* C8 (amended).  The tick corrects the record of a bot with an ONLINE handle
\* and isRunning = false and logs it; the correction itself leaves the handle and
\* the connection alone, and the tick goes on to restart that connection only
\* through rule 3 (ping = -1).
C8_DriftCorrection ==
  [][/\ DriftFound
     /\ \A b \in BotIds : Corrected(b) => CorrectionEffect(b)
     /\ \A t \in TaskIds :
          (tasks'[t].op = "tick" /\ tasks'[t].pc \in {"login", "destroy"}
             /\ HandleIs(tasks'[t].bp, {ONLINE}))
            => tasks'[t].via = "rule3"]_vars

C8_Witness ==
  \E b \in BotIds :
    /\ LastLog.botId = b
    /\ LastLog.message = "Ping mechanism corrected bot status to online."
    /\ bots[b].isRunning
    /\ bots[b].status = ONLINE
    /\ \E h \in MapGet(botProcesses, b) : conns[h.discordClient].state = "live"
    /\ \A t \in TaskIds : tasks[t].op = "idle"

\* C9.  stopBot on a bot with a handle removes the handle and marks the record
\* OFFLINE, also when the destruction of the connection fails.
C9_StopAlwaysRemoves ==
  [][\A t \in TaskIds :
       (tasks[t].pc = "destroy" /\ Resumed(t))
         => /\ ~MapHas(botProcesses', tasks[t].bot)
            /\ bots'[tasks[t].bot].status = OFFLINE]_vars

\* what the code does on a destruction error: log, return false, keep the handle
C9_DestroyErrorKeepsHandle ==
  [][\A t \in TaskIds :
       (tasks[t].pc = "destroy" /\ Resumed(t)
          /\ conns'[tasks[t].conn].state # "destroyed")
         => /\ Wrote(tasks[t].bot, "error", "Failed to stop")
            /\ MapGet(botProcesses', tasks[t].bot) = MapGet(botProcesses, tasks[t].bot)
            /\ bots'[tasks[t].bot] = bots[tasks[t].bot]]_vars

\* C10.  When the login of startBot(id) fails, startBot returns false, writes one
\* error-level entry for id, registers no handle for id and attempts no second
\* login in that call.
LoginRejected(t) ==
  /\ tasks[t].pc = "login"
  /\ conns[tasks[t].conn].state = "created"
  /\ conns'[tasks[t].conn].state = "failed"

\* C10.  On a rejected login startBot returns false, writes one error-level
\* entry for the bot, leaves the bot's map entry as it was and creates or
\* changes no other connection of the bot.
C10_LoginFailure ==
  [][\A t \in TaskIds :
       LoginRejected(t) =>
         LET b == tasks[t].bot IN
         /\ tasks[t].op \in {"startBot", "restartBot"}
              => response' = [op |-> tasks[t].op, bot |-> b, value |-> FALSE]
         /\ Cardinality(WroteAtLevel(b, "error")) = 1
         /\ Wrote(b, "error", "Failed to start")
         /\ MapGet(botProcesses', b) = MapGet(botProcesses, b)
         /\ \A c \in ConnIds :
              (conns'[c].bot = b /\ c # tasks[t].conn) => conns'[c] = conns[c]]_vars

C10_Witness ==
  \E b \in BotIds :
    /\ response = [op |-> "startBot", bot |-> b, value |-> FALSE]
    /\ LastLog.botId = b
    /\ LastLog.message = "Failed to start"
    /\ ~MapHas(botProcesses, b)
    /\ \E c \in ConnIds : conns[c].bot = b /\ conns[c].state = "failed"
\* C5.  The stored log never holds more than 1000 entries and the metric
\* history never more than 100 samples, and what is retained is the most
\* recently appended entries in the order they were appended (ids are handed
\* out in append order, so the retained ids are the last ones, ascending).
LastAppended(s, nextId) ==
  \A k \in 1..Len(s) : s[k].id = nextId - Len(s) + k - 1

\* C5.  At most 1000 log entries and 100 metric samples are stored, and they
\* are the most recently appended ones in append order.
C5_BoundedRetention ==
  /\ Len(logs) = Min({LogCap, logCurrentId - 1})
  /\ Len(metricsHistory) = Min({MetricCap, metricsCurrentId - 1})
  /\ LastAppended(logs, logCurrentId)
  /\ LastAppended(metricsHistory, metricsCurrentId)

C5_Witness ==
  /\ Len(logs) = LogCap
  /\ logs[1].id > 1
  /\ Len(metricsHistory) = MetricCap
  /\ metricsHistory[1].id > 1

\* C6.  A broadcast delivers one statusUpdate frame carrying the current
\* snapshot to every open subscriber of the set, whatever the other subscribers'
\* sockets do, and the code after the broadcast runs.
Frame(bs, ms) == [type |-> "statusUpdate", bots |-> bs, metrics |-> getLatestMetrics(ms)]

Broadcasts ==
  \/ metricsCurrentId' # metricsCurrentId
  \/ \E c \in ConnIds : conns'[c].ready /\ ~conns[c].ready
  \/ \E c \in ConnIds : conns'[c].state = "destroyed" /\ conns[c].state # "destroyed"

\* C6.  On a broadcast every open subscriber of the set receives one
\* statusUpdate frame with the current snapshot, whether or not the send to
\* another subscriber fails, and the caller's code after the broadcast runs.
C6_BroadcastIsolation ==
  [][Broadcasts =>
       /\ \A k \in 1..Len(clients) :
            socket[clients[k]] = "OPEN" =>
              inbox'[clients[k]] = [n |-> inbox[clients[k]].n + 1,
                                    last |-> <<Frame(bots', metricsHistory')>>,
                                    lost |-> inbox[clients[k]].lost]
       /\ \A c \in ConnIds :
            (conns'[c].ready /\ ~conns[c].ready)
              => Wrote(conns[c].bot, "info", "Bot is now online")]_vars

C6_Witness ==
  /\ Len(clients) = 2
  /\ socket[clients[1]] = "CLOSING"
  /\ socket[clients[2]] = "OPEN"
  /\ metricsCurrentId > 2
  /\ inbox[clients[2]].last = <<Frame(bots, metricsHistory)>>
  /\ inbox[clients[1]].last # inbox[clients[2]].last
\* C11.  startBot(id) for an id whose record is absent or carries no token
\* returns false, logs the error "Bot token not found", constructs no connection,
\* starts no login and leaves the handle map and the bot records unchanged.
NoToken(botId) == botId \notin DOMAIN bots \/ ~bots[botId].token

C11_MissingToken ==
  [][\A b \in ReqIds :
       (Admitted("startBot", b) /\ NoToken(b))
         => /\ response' = [op |-> "startBot", bot |-> b, value |-> FALSE]
            /\ Wrote(b, "error", "Bot token not found")
            /\ conns' = conns
            /\ tasks' = tasks
            /\ botProcesses' = botProcesses
            /\ bots' = bots]_vars

C11_Witness ==
  /\ response = [op |-> "startBot", bot |-> DefaultBots + 1, value |-> FALSE]
  /\ LastLog.message = "Bot token not found"
  /\ LastLog.level = "error"
  /\ \E b \in BotIds : ~bots[b].token
\* C12.  startBot, stopBot and restartBot always complete by returning a
\* boolean: no call of them is rejected, whatever collaborator fails.
C12_NeverRejects == response.op # "rejected"
\* the step persisted a new record
Persisted == botCurrentId' # botCurrentId

\* what createBot persists, and its one automatic start
PersistEffect ==
  Persisted =>
    LET id == botCurrentId
        rec == bots'[id]
    IN /\ id \notin DOMAIN bots
       /\ botCurrentId' = id + 1
       /\ rec.status = OFFLINE
       /\ ~rec.isRunning
       /\ rec.memory = 0 /\ rec.uptime = 0
       /\ rec.serverCount = 0 /\ rec.commandCount = 0
       /\ IF rec.token
          THEN /\ \E t \in TaskIds : /\ tasks'[t].op = "createBot"
                                     /\ tasks'[t].pc = "login"
                                     /\ tasks'[t].bot = id
                                     /\ conns'[tasks'[t].conn].state = "created"
               /\ Cardinality({c \in ConnIds : conns'[c].bot = id}) = 1
               /\ response' = NoResponse
          ELSE /\ \A c \in ConnIds : conns'[c].bot # id
               /\ WroteAtLevel(id, "error") = {}
               /\ response' = [op |-> "createBot", bot |-> id, value |-> TRUE]

\* a createBot that could not persist returns null and stores nothing
PersistFailure ==
  (response'.op = "createBot" /\ calls' = calls + 1 /\ ~Persisted)
    => /\ storageDown
       /\ response' = [op |-> "createBot", bot |-> 0, value |-> FALSE]
       /\ bots' = bots

\* C13 (as stated).  createBot persists a record with status OFFLINE, isRunning
\* false and zeroed counters, starts it once if it has a token, returns the
\* record also when that start fails, returns null when persisting fails.
C13_Original ==
  [][/\ PersistEffect
     /\ PersistFailure
     /\ \A t \in TaskIds :
          (tasks[t].op = "createBot" /\ Resumed(t))
            => response' = [op |-> "createBot", bot |-> tasks[t].bot, value |-> TRUE]]_vars

\* C13 (amended).  The same, except that the record is returned when the start
\* returned (true or false); when the start is rejected, createBot returns null
\* although the record is persisted.  In no case is a second connection made.
C13_CreateBot ==
  [][/\ PersistEffect
     /\ PersistFailure
     /\ \A t \in TaskIds :
          (tasks[t].op = "createBot" /\ Resumed(t))
            => /\ IF storageDown /\ conns'[tasks[t].conn].state = "failed"
                  THEN response' = [op |-> "createBot", bot |-> 0, value |-> FALSE]
                  ELSE response' = [op |-> "createBot", bot |-> tasks[t].bot, value |-> TRUE]
               /\ tasks[t].bot \in DOMAIN bots'
               /\ \A c \in ConnIds : c # tasks[t].conn => conns'[c] = conns[c]]_vars

C13_Witness ==
  \E b \in DOMAIN bots :
    /\ b > DefaultBots
    /\ response = [op |-> "createBot", bot |-> b, value |-> TRUE]
    /\ bots[b].status = OFFLINE
    /\ ~bots[b].isRunning
    /\ LastLog.botId = b
    /\ LastLog.message = "Failed to start"
    /\ \E c \in ConnIds : conns[c].bot = b /\ conns[c].state = "failed"
\* the defaults the claim lists for a bot type
ListedPermissions(botType) ==
  CASE botType = "MUSIC" -> "36700160"
    [] botType = "MODERATION" -> "1099511627775"
    [] botType = "GAMING" -> "297273408"
    [] OTHER -> "268435456"

BotScopes == <<"bot", "applications.commands">>

HasBotScopes(text) ==
  \E botType \in BotTypes :
    /\ defaultInviteConfig(botType).scopes = BotScopes
    /\ text = JSONstringify(defaultInviteConfig(botType))

\* C14 (as stated).  A created record carries the permissions and the invite
\* scopes listed for its category when the caller supplied none, and the
\* caller's permissions and invite configuration unchanged when it supplied them.
C14_Original ==
  [][\A data \in InsertBots :
       Persisted /\ CreateBotRoute(data) =>
         LET rec == bots'[botCurrentId] IN
         /\ IF data.permissions = Undefined
            THEN rec.permissions = ListedPermissions(data.botType)
            ELSE rec.permissions = data.permissions
         /\ IF data.inviteConfig = Undefined
            THEN HasBotScopes(rec.inviteConfig)
            ELSE rec.inviteConfig = data.inviteConfig]_vars

\* C14 (amended).  The same, with an empty string counting as not supplied.
C14_CategoryDefaults ==
  [][\A data \in InsertBots :
       Persisted /\ CreateBotRoute(data) =>
         LET rec == bots'[botCurrentId] IN
         /\ IF data.permissions \in {Undefined, ""}
            THEN rec.permissions = ListedPermissions(data.botType)
            ELSE rec.permissions = data.permissions
         /\ IF data.inviteConfig \in {Undefined, ""}
            THEN HasBotScopes(rec.inviteConfig)
            ELSE rec.inviteConfig = data.inviteConfig]_vars

C14_Witness ==
  \E b \in DOMAIN bots :
    /\ b > DefaultBots
    /\ bots[b].botType = "MUSIC"
    /\ bots[b].permissions = "36700160"
    /\ HasBotScopes(bots[b].inviteConfig)

\* ------------------------------------------------------------------- C15
Subscribed(cs, ws) == \E k \in 1..Len(cs) : cs[k] = ws

\* C15.  broadcastUpdate pushes a snapshot only to open subscribers: for a
\* subscriber of the set whose connection is not open no send is attempted, and
\* it stays in the set until its close event calls removeClient.
C15_SkipsNonOpen ==
  [][\A ws \in Subs :
       (Subscribed(clients, ws) /\ socket[ws] # "OPEN") =>
          /\ inbox'[ws] = inbox[ws]
          /\ Subscribed(clients', ws) \/ socket'[ws] = "CLOSED"]_vars

\* what the code does for such a subscriber: ws.send is called and fails,
\* nothing is delivered, and only the close event removes it
C15_SendsToNonOpen ==
  [][\A ws \in Subs :
       (Subscribed(clients, ws) /\ socket[ws] # "OPEN") =>
          /\ inbox'[ws].n = inbox[ws].n
          /\ Broadcasts /\ socket'[ws] # "CLOSED"
               => inbox'[ws].lost = Min({inbox[ws].lost + 1, MaxLost})
          /\ Subscribed(clients', ws) \/ socket'[ws] = "CLOSED"]_vars

\* ------------------------------------------------------------------- C16
\* the subscribers added (connection event) and not yet removed (close event)
Members == {ws \in Subs : socket[ws] \in {"OPEN", "CLOSING"}}

\* C16.  addClient(s) adds s to the set and pushes exactly one full snapshot
\* (all bot records, the latest metric sample) to s at once; after
\* removeClient(s) no broadcast sends to s; the set always equals the
\* subscribers added and not yet removed.
C16_Membership ==
  [][/\ \A ws \in Subs :
          /\ (socket[ws] = "NEW" /\ socket'[ws] # "NEW") =>
                /\ Subscribed(clients', ws)
                /\ inbox'[ws] = [n |-> 1, last |-> <<Frame(bots', metricsHistory')>>,
                                 lost |-> 0]
          /\ socket'[ws] = "CLOSED" =>
                /\ ~Subscribed(clients', ws)
                /\ socket[ws] = "CLOSED" => inbox'[ws] = inbox[ws]
     /\ {clients'[k] : k \in 1..Len(clients')} = Members'
     /\ Len(clients') = Cardinality(Members')]_vars

\* a subscriber came and went, and the one that stayed got a later broadcast
C16_Witness ==
  \E gone \in Subs, here \in Subs :
    /\ socket[gone] = "CLOSED"
    /\ inbox[gone].n = 1
    /\ clients = <<here>>
    /\ inbox[here].n >= 2
    /\ inbox[here].last # inbox[gone].last

\* ------------------------------------------------------------------- C17
\* bot b is desired-running and the connection of its handle has emitted an
\* error or a disconnect event; a restart would have replaced that handle
Degraded(b) ==
  /\ bots[b].isRunning
  /\ \E h \in MapGet(botProcesses, b) : conns[h.discordClient].emitted # "none"

\* C17.  Rule 1 for degraded handles: a tick that evaluates a bot whose persisted
\* isRunning is true and whose connection has emitted an error or a disconnect
\* event, with no restart since, logs the warning and attempts restartBot for it.
C17_DegradedRestarted ==
  [][(ticks' = ticks + 1) =>
       LET t == Min(IdleTasks) IN
       \A b \in BotIds :
         (Degraded(b) /\ (tasks'[t].op = "idle" \/ tasks'[t].bot >= b))
           => /\ Detected(b)
              /\ \/ InRestart(tasks', t, b, "rule1")
                 \/ tasks'[t].op = "idle" \/ tasks'[t].bot > b]_vars

\* what the events change: the persisted status, never the handle
C17_HandleStaysOnline ==
  \A b \in BotIds : \A h \in MapGet(botProcesses, b) : h.status = ONLINE

\* ------------------------------------------------------------------- C18
\* the step ran a segment of tick task t in which ws.ping read -1 exactly for
\* the bots of `unhealthy`
TickSegment(t, unhealthy) ==
  \/ /\ ticks' = ticks + 1
     /\ t = Min(IdleTasks)
     /\ Commit(Run(TickBegin(Spawn(t, "tick", "tickBegin", 0), t), t, unhealthy))
  \/ /\ tasks[t].op = "tick"
     /\ tasks[t].pc = "login"
     /\ \E resolved \in BOOLEAN : Commit(Run(StartBotLogin(State, t, resolved), t, unhealthy))
  \/ /\ tasks[t].op = "tick"
     /\ tasks[t].pc = "destroy"
     /\ \E resolved \in BOOLEAN : Commit(Run(StopBotDestroy(State, t, resolved), t, unhealthy))

\* the segment began the evaluation of bot b
Evaluated(t, b) ==
  /\ tasks[t].op = "tick" => b > tasks[t].bot
  /\ tasks'[t].op = "idle" \/ tasks'[t].bot >= b

\* C18.  Rule 3: a tick that evaluates a bot whose handle has status ONLINE and
\* whose connection ping reads -1 calls restartBot for it in that tick, whatever
\* the bot's isRunning flag; rule 3 restarts no bot whose ping is not -1.
C18_UnhealthyRestarted ==
  [][\A t \in TaskIds, unhealthy \in [BotIds -> BOOLEAN] :
       TickSegment(t, unhealthy) =>
         \A b \in BotIds :
           Evaluated(t, b) =>
             (InRestart(tasks', t, b, "rule3")
                <=> (HandleOnline(botProcesses, b) /\ unhealthy[b]))]_vars

\* a tick restarts, through rule 3, a bot it read as isRunning = false
C18_Witness ==
  \E t \in TaskIds :
    /\ InRestart(tasks, t, tasks[t].bot, "rule3")
    /\ tasks[t].pc = "login"
    /\ ~tasks[t].snap[tasks[t].i].isRunning
    /\ conns[tasks[t].conn].state = "created"
    /\ \E c \in ConnIds : conns[c].bot = tasks[t].bot /\ conns[c].state = "destroyed"

\* ------------------------------------------------------------------- C19
\* the step ended the tick of task t
TickEnded(t) ==
  /\ tasks'[t].op = "idle"
  /\ \/ tasks[t].op = "tick"
     \/ ticks' = ticks + 1 /\ t = Min(IdleTasks)

\* the tick of task t has read the list of bots
TickReadBots(t) == tasks[t].op = "tick" \/ ~storageDown

\* C19.  Rule 4: every tick that has read the bots ends by calling
\* broadcastUpdate, once, after the last bot, also when a recovery action of the
\* tick failed.
C19_TickBroadcasts ==
  [][\A t \in TaskIds :
       (TickEnded(t) /\ TickReadBots(t))
         => response' = [op |-> "tick", bot |-> 0, value |-> TRUE]]_vars

\* a tick ended with its broadcast after a restart of its rule 1 had failed
C19_TickAfterFailure ==
  /\ response = [op |-> "tick", bot |-> 0, value |-> TRUE]
  /\ \E b \in BotIds :
       /\ bots[b].isRunning
       /\ ~MapHas(botProcesses, b)
       /\ \E k \in 1..Len(logs) : logs[k].botId = b /\ logs[k].message = "Failed to start"

\* ------------------------------------------------------------------- C20
\* the step ended the pass (tick or startup recovery) that task t was
\* suspended in, with bots of its list still to come
PassEndedBefore(t) ==
  /\ tasks[t].op \in {"tick", "recover"}
  /\ tasks'[t].op = "idle"
  /\ tasks[t].i < Len(tasks[t].snap)

\* C20.  Per-bot isolation: a failed start, stop or restart of one bot (missing
\* token, login failure, destroy error, failing storage write) does not keep the
\* pass from evaluating the bots after it: the pass ends only by running its
\* loop to the end of the list.
C20_PassIsolation ==
  [][\A t \in TaskIds :
       PassEndedBefore(t) => response' = [op |-> tasks[t].op, bot |-> 0, value |-> TRUE]]_vars

\* a recovery pass went on after the login of its first bot had failed
C20_PassAfterFailure ==
  /\ response = [op |-> "recover", bot |-> 0, value |-> TRUE]
  /\ \E k \in 1..Len(logs) : logs[k].botId = 1 /\ logs[k].message = "Failed to start"
  /\ MapHas(botProcesses, 2)

\* ------------------------------------------------------------------- C21
\* the persisted flag, the persisted status and the handle map agree on bot b
Converged(b) ==
  /\ bots[b].isRunning <=> bots[b].status = ONLINE
  /\ bots[b].isRunning <=> MapHas(botProcesses, b)

\* nothing is under way: no call is suspended, no ready event is due, and a
\* firing of a sampler would write what is already stored
Quiet ==
  /\ \A t \in TaskIds : tasks[t].op = "idle"
  /\ sampling = {}
  /\ \A c \in ConnIds : conns[c].state = "live" => conns[c].ready
  /\ \A c \in samplers :
       HandleOnline(botProcesses, conns[c].bot) => bots[conns[c].bot].isRunning

\* C21.  Eventual convergence, in the form a finite run refutes: with nothing
\* else under way, a tick that runs to its end and changes neither a record nor
\* the handle map (so that every later tick does the same) is a tick over bots
\* whose isRunning flag, status and handle already agree.
C21_TicksConverge ==
  [][(ticks' = ticks + 1 /\ Quiet /\ tasks' = tasks
        /\ bots' = bots /\ botProcesses' = botProcesses)
       => \A b \in BotIds : Converged(b)]_vars

\* ------------------------------------------------------------------- C22
\* the handle of connection c is registered, with status ONLINE
OwnHandle(c) ==
  \E h \in MapGet(botProcesses, conns[c].bot) :
    h.discordClient = c /\ h.status = ONLINE

\* the step is a firing of the sampler of connection c
Fired(c) ==
  /\ c \in samplers
  /\ c \notin sampling
  /\ c \notin samplers' \/ c \in sampling'

\* the step is the write that ends a firing of the sampler of connection c
Sampled(c) == c \in sampling /\ c \notin sampling' /\ bots' # bots

\* C22.  The sampler of a connection writes bot metrics only while that
\* connection's handle is registered with status ONLINE, and cancels itself at
\* its first firing after that handle was removed or replaced.
C22_SamplerLifetime ==
  [][\A c \in ConnIds :
       /\ (Fired(c) /\ ~OwnHandle(c)) => c \notin samplers'
       /\ Sampled(c) => OwnHandle(c)]_vars

\* the first half alone: a firing after the handle was replaced
C22_StaleSamplerCancels ==
  [][\A c \in ConnIds : (Fired(c) /\ ~OwnHandle(c)) => c \notin samplers']_vars

\* what the code's test gives: the sampler goes on while any handle with status
\* ONLINE is registered for its bot id
C22_SamplerTest ==
  [][\A c \in ConnIds :
       Fired(c) => (c \in samplers' <=> HandleOnline(botProcesses, conns[c].bot))]_vars

\* ------------------------------------------------------------------- C23
\* C23.  When an uncaught error is handled at top level, every subscriber of
\* the set whose connection is open is sent the error notification, also when
\* the send to another subscriber throws.
C23_ErrorReachesAll ==
  [][(faults' = faults + 1) =>
       \A k \in 1..Len(clients) :
         socket[clients[k]] = "OPEN" =>
           /\ inbox'[clients[k]].n = inbox[clients[k]].n + 1
           /\ inbox'[clients[k]].last[1].type = "error"]_vars

\* what the code gives: the subscribers before the first throwing send
C23_ErrorReachesPrefix ==
  [][(faults' = faults + 1) =>
       \A k \in 1..Len(clients) :
         (socket[clients[k]] = "OPEN"
            /\ \A j \in 1..(k - 1) : socket[clients[j]] # "BROKEN")
           => /\ inbox'[clients[k]].n = inbox[clients[k]].n + 1
              /\ inbox'[clients[k]].last[1].type = "error"]_vars

\* ------------------------------------------------------------------- C24
\* the step constructed a connection for bot b
Connects(b) == \E c \in ConnIds : conns'[c].bot = b /\ conns[c].bot # b

\* C24.  A user stop sticks: a tick that runs right after stopBot(b) returned
\* true, hence with no start, restart or create request for b in between,
\* constructs no connection, starts no login and registers no handle for b.
C24_StopSticks ==
  [][\A b \in BotIds :
       (response = [op |-> "stopBot", bot |-> b, value |-> TRUE] /\ ticks' = ticks + 1)
         => /\ ~Connects(b)
            /\ MapGet(botProcesses', b) \subseteq MapGet(botProcesses, b)]_vars

\* what the code gives: the tick leaves a stopped bot alone if its record
\* reads isRunning = false
C24_StopSticksUnlessRunning ==
  [][\A b \in BotIds :
       (response = [op |-> "stopBot", bot |-> b, value |-> TRUE] /\ ticks' = ticks + 1
          /\ ~bots[b].isRunning /\ ~MapHas(botProcesses, b))
         => /\ ~Connects(b)
            /\ MapGet(botProcesses', b) \subseteq MapGet(botProcesses, b)]_vars

\* ------------------------------------------------------------------- C25
\* connection c is the one the handle map references for its bot id
Referenced(c) ==
  \E h \in MapGet(botProcesses, conns[c].bot) : h.discordClient = c

\* C25.  No orphaned live connection: under every interleaving of starts,
\* stops, restarts, ticks and the recovery pass, every connection that has
\* logged in and has not been destroyed is referenced by the handle map, so at
\* most one live connection exists per bot id.
C25_NoOrphan ==
  /\ \A c \in ConnIds : conns[c].state = "live" => Referenced(c)
  /\ \A c, d \in ConnIds :
       (conns[c].state = "live" /\ conns[d].state = "live" /\ conns[c].bot = conns[d].bot)
         => c = d

\* ------------------------------------------------------------------- C26
\* the step delivered an event of connection c to its handler
Delivered(c) ==
  \/ conns'[c].ready /\ ~conns[c].ready
  \/ conns'[c].emitted # conns[c].emitted

\* C26.  Stale connection events are inert: once stopBot has removed the handle
\* of a connection, a ready, error or disconnect event of that connection
\* neither changes the persisted status of its bot nor starts a sampler for it.
C26_StaleEventsInert ==
  [][\A c \in ConnIds :
       (conns[c].state = "destroyed" /\ ~Referenced(c) /\ Delivered(c))
         => /\ bots'[conns[c].bot].status = bots[conns[c].bot].status
            /\ c \in samplers' => c \in samplers]_vars

\* ------------------------------------------------------------------- C27
\* C27.  Handles only for existing bots: every handle of the handle map belongs
\* to a bot id whose record exists in storage, also when the delete-bot route
\* runs while a startBot for the same id is suspended at its login.
C27_HandlesHaveRecords ==
  \A h \in botProcesses : h.botId \in DOMAIN bots

\* ------------------------------------------------------------------- C28
\* the step is the login, resolving, of the connection that the restartBot(b)
\* of task t constructed, and it registers the handle of that connection
RestartLoggedIn(t, b) ==
  /\ tasks[t].op = "restartBot"
  /\ tasks[t].bot = b
  /\ tasks[t].pc = "login"
  /\ conns[tasks[t].conn].state = "created"
  /\ conns'[tasks[t].conn].state = "live"
  /\ \A h \in MapGet(botProcesses', b) : h.discordClient = tasks[t].conn

\* C28.  restartBot(b) returns true only if during the call a new connection
\* was constructed and logged in, and the handle present after a true result is
\* the one of that connection, never one that existed before the call.
C28_RestartTrueIsFresh ==
  [][\A b \in BotIds :
       response' = [op |-> "restartBot", bot |-> b, value |-> TRUE]
         => \E t \in TaskIds : RestartLoggedIn(t, b)]_vars

\* ------------------------------------------------------------------- C29
\* the step wrote a success-level recovery entry of the tick for bot b
WroteRecovery(b) ==
  \/ Wrote(b, "success", "Bot successfully reconnected by auto-recovery system.")
  \/ Wrote(b, "success", "Bot recovered after full stop/start cycle.")

\* C29.  Truthful recovery log: a tick writes a success-level recovery entry for
\* a bot only if the start it just performed returned true, that is without an
\* error entry for the bot, and a handle exists for the bot at that moment.
C29_TruthfulRecoveryLog ==
  [][\A b \in BotIds :
       WroteRecovery(b) => /\ MapHas(botProcesses', b)
                           /\ WroteAtLevel(b, "error") = {}]_vars

\* ------------------------------------------------------------------- C30
\* the stored entries a read for botId is about, oldest first
Matching(botId) ==
  IF botId = 0 THEN logs ELSE SelectSeq(logs, LAMBDA log : log.botId = botId)

\* the read returned the `limit` newest matching entries, newest first
NewestFirst(botId, limit, read) ==
  /\ Len(read) <= limit
  /\ Len(read) = Min({limit, Len(Matching(botId))})
  /\ \A k \in 1..Len(read) : read[k] = Matching(botId)[Len(Matching(botId)) - k + 1]

\* C30.  For every limit >= 0, getLogs(limit) and getLogsByBotId(botId, limit)
\* return at most limit entries: the most recently appended matching entries,
\* newest first.
C30_LogReadsBounded ==
  [][response'.op = "getLogs"
       => NewestFirst(response'.bot, response'.value.limit, response'.value.logs)]_vars

\* what the code gives: the same for every limit >= 1
C30_PositiveLimit ==
  [][(response'.op = "getLogs" /\ response'.value.limit >= 1)
       => NewestFirst(response'.bot, response'.value.limit, response'.value.logs)]_vars

====
